---- MODULE Spec2Model ----
(***************************************************************************)
(* TW-ESPORTS: the match-record store of src/app.py (Flask handlers over   *)
(* the User and Stats tables of src/models.py) and the best_kills /        *)
(* best_damage cache kept on User; the leaderboard pages computed from     *)
(* them; the Attendance and ActivityLog tables join_practice writes.       *)
(*                                                                         *)
(* The store is the default one of src/config.py (SQLite): a new row gets  *)
(* id max(id)+1, foreign keys are declared but not enforced.  The Stats    *)
(* table carries the columns match_type and position that app.py adds at   *)
(* start-up (lines 47-56).                                                 *)
(*                                                                         *)
(* A nullable column or an optional form field is an option value: {} is   *)
(* None / a missing field, {v} is the value v.                             *)
(***************************************************************************)
EXTENDS Integers, Sequences, FiniteSets, TLC

VARIABLES
    users,      \* User table: id -> row
    stats,      \* Stats table: id -> row
    files,      \* names of the files in UPLOAD_FOLDER
    inflight,   \* requests that have read the store and not yet committed
    last,       \* LogSpec only: the latest request that committed
    view,       \* the latest page or JSON answer computed from the tables
    attendance, \* Attendance table: id -> row
    activity,   \* ActivityLog table: id -> row (created_at left out)
    today       \* date.today() of the server's clock

vars == <<users, stats, files, inflight, last, view, attendance, activity,
          today>>

----------------------------------------------------------------------------
(* Bounds of the model *)

MaxStatId == 2      \* ids a Stats row may take
MaxAttId == 3       \* ids an Attendance row may take
MaxDay == 2         \* days the server's clock runs through
MaxRows == 2        \* rows of one bulk_stats form
MaxInflight == 2    \* requests in progress at once
MaxUserId == 4      \* ids a User row may take

----------------------------------------------------------------------------
(* Option values and small helpers *)

None == {}
Some(x) == {x}
Val(o) == CHOOSE x \in o : TRUE
\* Python's  form.get(name, d)  /  (x or d)
OrDefault(o, d) == IF o = None THEN d ELSE Val(o)

Max(S, d) == IF S = {} THEN d ELSE CHOOSE x \in S : \A y \in S : y <= x

Range(s) == {s[i] : i \in DOMAIN s}

Drop(f, S) == [x \in (DOMAIN f) \ S |-> f[x]]

----------------------------------------------------------------------------
(* Values of the program *)

ALLOWED_TYPES == {"BR", "CS", "Scrims", "Custom"}

AdminId == 1

\* the date strings a form may carry; strptime("%Y-%m-%d") accepts GoodDate
GoodDate == "2024-01-01"
DateIn == {Some(GoodDate), Some("01/01/2024")}
ParsesAsDate(d) == d = GoodDate

\* the screenshot part of a form: none, a name allowed_file refuses, a good one
UploadIn == {"none", "shot.txt", "shot.png"}
allowed_file(filename) == filename = "shot.png"

\* kills, damage, survival as submitted (a missing field is None)
StatLines ==
    { <<Some(5), Some(3), Some(4)>>,
      <<Some(2), Some(8), None>>,
      <<Some(-1), Some(-2), Some(-1)>> }

PositionIn == {None, Some(1), Some(3), Some(13)}
TypeIn == {None, Some("BR"), Some("XX")}

StatIds == 1..MaxStatId

UserIds == 1..MaxUserId
FileNames == 1..(MaxStatId + MaxInflight + 3)

----------------------------------------------------------------------------
(* Reading the store *)

\* Stats.query.filter_by(player_id=pid).all(), as the set of row ids
StatsOf(st, pid) == {i \in DOMAIN st : st[i].player_id = pid}

\* max((r.kills for r in remaining), default=0)
MaxKills(st, ids) == Max({st[i].kills : i \in ids}, 0)
MaxDamage(st, ids) == Max({st[i].damage : i \in ids}, 0)

\* Stats.query.filter(Stats.screenshot == shot, Stats.id != id).count()
other_refs(st, id, shot) ==
    Cardinality({i \in DOMAIN st : i # id /\ st[i].screenshot = shot})

\* str(uuid.uuid4()) + "_" + name: a name no file and no row carries
NewFileName(st, fs, pending) ==
    CHOOSE n \in FileNames :
        /\ n \notin fs \cup pending
        /\ \A i \in DOMAIN st : st[i].screenshot # Some(n)
        /\ \A m \in FileNames :
              (m < n) => (m \in fs \cup pending
                          \/ \E i \in DOMAIN st : st[i].screenshot = Some(m))

----------------------------------------------------------------------------
(* Form parsing shared by the handlers *)

\* (form.get("match_type") or "").strip(), then None when not allowed
NormMatchType(mt) ==
    LET s == OrDefault(mt, "")
    IN  IF s # "" /\ s \notin ALLOWED_TYPES THEN None ELSE Some(s)

InRangeAny(pos) == TRUE
InRange(pos) == ~(pos < 1 \/ pos > 12)

\* booyah = 1 if position == 1 else 0
BooyahOfLoose(pos) == IF pos <= 1 THEN 1 ELSE 0
BooyahOf(pos) == IF pos = 1 THEN 1 ELSE 0

\* position=pos_val or None
PosOrNone(pos) == IF pos = 0 THEN None ELSE Some(pos)

DateOkLax(d) == d # None /\ Val(d) # ""
DateOk(d) == d # None /\ Val(d) # "" /\ ParsesAsDate(Val(d))

----------------------------------------------------------------------------
(* A handler's outcome: its response, the session's pending writes (tx),    *)
(* and what it did to UPLOAD_FOLDER on the way (not transactional).         *)
(*   tx.ins   rows added to the session, in order (ids come at INSERT)      *)
(*   tx.upd   [id, row, cols]: row id gets row's values in the columns cols *)
(*   tx.del   ids of the Stats rows deleted                                 *)
(*   tx.delUsers  ids of the User rows deleted                              *)
(*   tx.best  [uid, col, val]: UPDATE user SET col = val WHERE id = uid     *)
(*   tx.insUsers  User rows added to the session, in order                  *)
(*   tx.insAtt    Attendance rows added to the session, in order            *)
(*   tx.insLog    ActivityLog rows log_activity adds after the commit       *)

NoTx == [ins |-> <<>>, upd |-> {}, del |-> {}, delUsers |-> {}, best |-> {},
         insUsers |-> <<>>, insAtt |-> <<>>, insLog |-> <<>>]

Refuse(why) == [result |-> why, tx |-> NoTx, fsave |-> {}, frem |-> {},
                old |-> None]

\* the ORM emits an UPDATE for an attribute only when its value has changed
BestWrite(uid, col, val, loaded) ==
    IF val = loaded THEN {} ELSE {[uid |-> uid, col |-> col, val |-> val]}

ChangedCols(old, new) == {c \in DOMAIN new : new[c] # old[c]}

----------------------------------------------------------------------------
(* add_stats: a player (or the admin) submits one match record *)

NewRow(pid, k, pos, dmg, surv, shot, mt) ==
    [player_id |-> pid, date |-> GoodDate, kills |-> k,
     booyah |-> BooyahOf(pos), position |-> PosOrNone(pos), damage |-> dmg,
     survival |-> surv, screenshot |-> Some(shot), match_type |-> mt]

add_stats(us, st, fs, pending, actor, form) ==
    LET kills    == OrDefault(form.kills, 0)
        position == OrDefault(form.position, 0)
        damage   == OrDefault(form.damage, 0)
        survival == OrDefault(form.survival, 0)
        mt       == NormMatchType(form.match_type)
        filename == NewFileName(st, fs, pending)
        me       == us[actor]
    IN  IF me.role = "viewer" THEN Refuse("denied")
        ELSE IF ~DateOk(form.date) THEN Refuse("bad_date")
        ELSE IF ~InRange(position) THEN Refuse("bad_position")
        ELSE IF form.upload = "none" THEN Refuse("no_file")
        ELSE IF ~allowed_file(form.upload) THEN Refuse("bad_file")
        ELSE [result |-> "ok",
              tx |-> [NoTx EXCEPT
                  !.ins = <<NewRow(actor, kills, position, damage, survival,
                                   filename, mt)>>,
                  !.best =
                      (IF kills > me.best_kills
                         THEN BestWrite(actor, "best_kills", kills, me.best_kills)
                         ELSE {})
                      \cup
                      (IF damage > me.best_damage
                         THEN BestWrite(actor, "best_damage", damage, me.best_damage)
                         ELSE {})],
              fsave |-> {filename}, frem |-> {}, old |-> None]

----------------------------------------------------------------------------
(* bulk_stats: the admin submits one screenshot and a list of rows *)

\* the loop body's "BEST RECORD AUTO UPDATE per player": best is the running
\* value of every loaded player's cache, rows are taken from index i on
RECURSIVE BulkBest(_, _, _)
BulkBest(rows, i, best) ==
    IF i > Len(rows) THEN best
    ELSE LET r   == rows[i]
             pid == OrDefault(r.player_id, 0)
             k   == OrDefault(r.kills, 0)
             d   == OrDefault(r.damage, 0)
         IN  IF r.player_id = None \/ pid \notin DOMAIN best
               THEN BulkBest(rows, i + 1, best)
               ELSE BulkBest(rows, i + 1,
                      [best EXCEPT
                         ![pid].best_kills  = IF k > @ THEN k ELSE @,
                         ![pid].best_damage = IF d > @ THEN d ELSE @])

\* the rows the loop adds to the session, in order
RECURSIVE BulkRows(_, _, _, _)
BulkRows(rows, i, filename, mt) ==
    IF i > Len(rows) THEN <<>>
    ELSE LET r       == rows[i]
             pos_in  == OrDefault(r.position, 0)
             pos_val == IF InRange(pos_in) THEN pos_in ELSE 0
             rest    == BulkRows(rows, i + 1, filename, mt)
         IN  IF r.player_id = None THEN rest
             ELSE <<NewRow(Val(r.player_id), OrDefault(r.kills, 0), pos_val,
                           OrDefault(r.damage, 0), OrDefault(r.survival, 0),
                           filename, mt)>> \o rest

bulk_stats(us, st, fs, pending, actor, form) ==
    LET mt       == NormMatchType(form.match_type)
        filename == NewFileName(st, fs, pending)
        newrows  == BulkRows(form.rows, 1, filename, mt)
        best     == BulkBest(form.rows, 1, us)
    IN  IF us[actor].role # "admin" THEN Refuse("denied")
        ELSE IF ~DateOk(form.date) THEN Refuse("bad_date")
        ELSE IF form.upload = "none" THEN Refuse("no_file")
        ELSE IF ~allowed_file(form.upload) THEN Refuse("bad_file")
        ELSE IF newrows = <<>> THEN Refuse("no_rows")   \* file saved, then removed
        ELSE [result |-> "ok",
              tx |-> [NoTx EXCEPT
                  !.ins = newrows,
                  !.best = UNION {
                      BestWrite(u, "best_kills", best[u].best_kills,
                                us[u].best_kills)
                      \cup BestWrite(u, "best_damage", best[u].best_damage,
                                     us[u].best_damage) : u \in DOMAIN us}],
              fsave |-> {filename}, frem |-> {}, old |-> None]

----------------------------------------------------------------------------
(* edit_proof (POST): the admin rewrites one match record *)

\* "update best stats for player": the maxima over the player's rows as the
\* session sees them, the edited row included
RecomputeBest(us, st, pid) ==
    IF pid \notin DOMAIN us THEN {}
    ELSE BestWrite(pid, "best_kills", MaxKills(st, StatsOf(st, pid)),
                   us[pid].best_kills)
         \cup BestWrite(pid, "best_damage", MaxDamage(st, StatsOf(st, pid)),
                        us[pid].best_damage)

\* the file a row's screenshot names, when no other row shares it and it is
\* on disk: what os.remove is called on
UnsharedFile(st, fs, id) ==
    LET shot == st[id].screenshot
    IN  IF shot # None /\ other_refs(st, id, shot) = 0 /\ Val(shot) \in fs
          THEN {Val(shot)} ELSE {}

edit_proof(us, st, fs, pending, actor, id, form) ==
    IF us[actor].role # "admin" THEN Refuse("denied")
    ELSE IF id \notin DOMAIN st THEN Refuse("not_found")
    ELSE IF ~DateOk(form.date) THEN Refuse("bad_date")
    ELSE
    LET stat     == st[id]
        kills    == OrDefault(form.kills, stat.kills)
        pos_in   == OrDefault(form.position, OrDefault(stat.position, 0))
        pos_val  == IF InRange(pos_in) THEN pos_in ELSE 0
        damage   == OrDefault(form.damage, stat.damage)
        survival == OrDefault(form.survival, stat.survival)
        mt       == NormMatchType(form.match_type)
        new_name == NewFileName(st, fs, pending)
        shot     == IF form.upload = "none" THEN stat.screenshot
                    ELSE Some(new_name)
        row      == [stat EXCEPT !.date = GoodDate, !.kills = kills,
                        !.position = PosOrNone(pos_val),
                        !.booyah = BooyahOf(pos_val), !.damage = damage,
                        !.survival = survival, !.match_type = mt,
                        !.screenshot = shot]
        st2      == [st EXCEPT ![id] = row]
        cols     == ChangedCols(stat, row)
    IN  IF form.upload # "none" /\ ~allowed_file(form.upload)
          THEN Refuse("bad_file")
          ELSE [result |-> "ok",
                tx |-> [NoTx EXCEPT
                    !.upd = IF cols = {} THEN {}
                            ELSE {[id |-> id, row |-> row, cols |-> cols]},
                    !.best = RecomputeBest(us, st2, stat.player_id)],
                fsave |-> IF form.upload = "none" THEN {} ELSE {new_name},
                frem |-> IF form.upload = "none" THEN {}
                         ELSE UnsharedFile(st, fs, id),
                old |-> Some(stat)]

----------------------------------------------------------------------------
(* delete_proof: the admin deletes one match record and its file *)

\* as delete_proof, the deleted row still counted among the remaining ones
delete_proof_stale(us, st, fs, actor, stat_id) ==
    IF us[actor].role # "admin" THEN Refuse("denied")
    ELSE IF stat_id \notin DOMAIN st THEN Refuse("not_found")
    ELSE [result |-> "ok",
          tx |-> [NoTx EXCEPT
              !.del = {stat_id},
              !.best = RecomputeBest(us, st, st[stat_id].player_id)],
          fsave |-> {}, frem |-> UnsharedFile(st, fs, stat_id),
          old |-> Some(st[stat_id])]

delete_proof(us, st, fs, actor, stat_id) ==
    IF us[actor].role # "admin" THEN Refuse("denied")
    ELSE IF stat_id \notin DOMAIN st THEN Refuse("not_found")
    ELSE [result |-> "ok",
          tx |-> [NoTx EXCEPT
              !.del = {stat_id},
              !.best = RecomputeBest(us, Drop(st, {stat_id}),
                                     st[stat_id].player_id)],
          fsave |-> {}, frem |-> UnsharedFile(st, fs, stat_id),
          old |-> Some(st[stat_id])]

(* delete_proof_image: the admin deletes the screenshot, keeps the record *)

delete_proof_image(us, st, fs, actor, stat_id) ==
    IF us[actor].role # "admin" THEN Refuse("denied")
    ELSE IF stat_id \notin DOMAIN st THEN Refuse("not_found")
    ELSE IF st[stat_id].screenshot = None THEN Refuse("no_image")
    ELSE [result |-> "ok",
          tx |-> [NoTx EXCEPT
              !.upd = {[id |-> stat_id,
                        row |-> [st[stat_id] EXCEPT !.screenshot = None],
                        cols |-> {"screenshot"}]}],
          fsave |-> {}, frem |-> UnsharedFile(st, fs, stat_id),
          old |-> Some(st[stat_id])]

(* delete_player_hard: the admin deletes a player and all its records *)

delete_player_hard(us, st, fs, actor, player_id) ==
    IF us[actor].role # "admin" THEN Refuse("denied")
    ELSE IF player_id \notin DOMAIN us
            \/ us[player_id].role \notin {"player", "viewer"}
         THEN Refuse("not_found")
    ELSE [result |-> "ok",
          tx |-> [NoTx EXCEPT
              !.del = StatsOf(st, player_id),
              !.delUsers = {player_id}],
          fsave |-> {},
          frem |-> {n \in fs : \E i \in StatsOf(st, player_id) :
                                  st[i].screenshot = Some(n)},
          old |-> None]

----------------------------------------------------------------------------
(* The accounts: add_player, delete_player (soft), restore_player and      *)
(* toggle_role, all for the admin only.                                     *)

\* User(...): best_kills, best_damage and active take the column defaults
User(name, role) ==
    [username |-> name, role |-> role, active |-> TRUE,
     best_kills |-> 0, best_damage |-> 0,
     ff_uid |-> None, player_role |-> None]

\* the User row add_player builds: role "player", ff_uid and player_role
\* as typed (blank when the field is missing)
NewPlayer(username, ff_uid, player_role) ==
    [User(username, "player") EXCEPT
        !.ff_uid = Some(ff_uid), !.player_role = Some(player_role)]

add_player(us, actor, form) ==
    IF us[actor].role # "admin" THEN Refuse("denied")
    ELSE IF form.username = "" \/ form.password = "" THEN Refuse("missing")
    ELSE IF \E u \in DOMAIN us : us[u].username = form.username
         THEN Refuse("exists")
    ELSE [Refuse("ok") EXCEPT
             !.tx.insUsers = <<NewPlayer(form.username, form.ff_uid,
                                         form.player_role)>>]

delete_player(us, actor, player_id) ==
    IF us[actor].role # "admin" THEN Refuse("denied")
    ELSE IF player_id \in DOMAIN us /\ us[player_id].role = "player"
            /\ us[player_id].active
         THEN [Refuse("ok") EXCEPT
                  !.tx.best = {[uid |-> player_id, col |-> "active",
                                val |-> FALSE]}]
    ELSE Refuse("not_found")

\* restore_player with delete_player's assignment left in
restore_player_pasted(us, actor, player_id) ==
    IF us[actor].role # "admin" THEN Refuse("denied")
    ELSE IF player_id \in DOMAIN us /\ us[player_id].role = "player"
            /\ ~us[player_id].active
         THEN [Refuse("ok") EXCEPT
                  !.tx.best = {[uid |-> player_id, col |-> "active",
                                val |-> FALSE]}]
    ELSE Refuse("not_found")

restore_player(us, actor, player_id) ==
    IF us[actor].role # "admin" THEN Refuse("denied")
    ELSE IF player_id \in DOMAIN us /\ us[player_id].role = "player"
            /\ ~us[player_id].active
         THEN [Refuse("ok") EXCEPT
                  !.tx.best = {[uid |-> player_id, col |-> "active",
                                val |-> TRUE]}]
    ELSE Refuse("not_found")

toggle_role_open(us, actor, player_id) ==
    IF player_id \in DOMAIN us /\ us[player_id].role \in {"player", "viewer"}
      THEN [Refuse("ok") EXCEPT
               !.tx.best = {[uid |-> player_id, col |-> "role",
                             val |-> IF us[player_id].role = "player"
                                       THEN "viewer" ELSE "player"]}]
    ELSE Refuse("not_found")

toggle_role(us, actor, player_id) ==
    IF us[actor].role # "admin" THEN Refuse("denied")
    ELSE IF player_id \in DOMAIN us
            /\ us[player_id].role \in {"player", "viewer"}
         THEN [Refuse("ok") EXCEPT
                  !.tx.best = {[uid |-> player_id, col |-> "role",
                                val |-> IF us[player_id].role = "player"
                                          THEN "viewer" ELSE "player"]}]
    ELSE Refuse("not_found")

----------------------------------------------------------------------------
(* Attendance *)

\* the text sqlite3 stores for a datetime.date bound to a String column
isoformat(d) == <<d.year, d.month, d.day>>

\* Attendance.query.filter_by(player_id=..., date=today).first() is a row
existing(att, player_id, day) ==
    \E i \in DOMAIN att : /\ att[i].player_id = player_id
                          /\ att[i].date = isoformat(day)

join_practice(us, att, day, actor) ==
    IF us[actor].role = "viewer" THEN Refuse("denied")
    ELSE IF existing(att, actor, day) THEN Refuse("already")
    ELSE [Refuse("ok") EXCEPT
             !.tx.insAtt = <<[player_id |-> actor, date |-> isoformat(day),
                              status |-> "Present"]>>,
             !.tx.insLog = <<[username |-> us[actor].username,
                              user_id |-> actor,
                              action |-> "attendance_mark"]>>]

----------------------------------------------------------------------------
(* db.session.commit(): the pending writes reach the tables *)

\* an UPDATE that matches no row raises StaleDataError: nothing is committed
Stale(us, st, tx) ==
    \/ \E u \in tx.upd : u.id \notin DOMAIN st
    \/ \E b \in tx.best : b.uid \notin DOMAIN us

ApplyUpd(st, upd) ==
    [i \in DOMAIN st |->
        IF \E u \in upd : u.id = i
          THEN LET u == CHOOSE x \in upd : x.id = i
               IN  [c \in DOMAIN st[i] |->
                       IF c \in u.cols THEN u.row[c] ELSE st[i][c]]
          ELSE st[i]]

\* INSERT: the new row's id is max(id) + 1
InsertAll(st, ins) ==
    LET base == Max(DOMAIN st, 0)
    IN  [i \in (DOMAIN st) \cup {base + k : k \in 1..Len(ins)} |->
            IF i \in DOMAIN st THEN st[i] ELSE ins[i - base]]

CommitStats(st, tx) == Drop(InsertAll(ApplyUpd(st, tx.upd), tx.ins), tx.del)

\* delete_player_hard: DELETE FROM attendance WHERE player_id = the player
CommitAttendance(att, tx) ==
    LET kept == {i \in DOMAIN att : att[i].player_id \notin tx.delUsers}
    IN  InsertAll([i \in kept |-> att[i]], tx.insAtt)

\* delete_player_hard: DELETE FROM activity_log WHERE user_id = the player
CommitActivity(act, tx) ==
    LET kept == {i \in DOMAIN act : act[i].user_id \notin tx.delUsers}
    IN  InsertAll([i \in kept |-> act[i]], tx.insLog)

\* UPDATE user SET col = val with no WHERE clause
CommitUsersNoWhere(us, tx) ==
    LET upd == [u \in DOMAIN us |->
                 [c \in DOMAIN us[u] |->
                    IF \E b \in tx.best : b.col = c
                      THEN (CHOOSE b \in tx.best : b.col = c).val
                      ELSE us[u][c]]]
    IN  Drop(InsertAll(upd, tx.insUsers), tx.delUsers)

CommitUsers(us, tx) ==
    LET upd == [u \in DOMAIN us |->
                 [c \in DOMAIN us[u] |->
                    IF \E b \in tx.best : b.uid = u /\ b.col = c
                      THEN (CHOOSE b \in tx.best : b.uid = u /\ b.col = c).val
                      ELSE us[u][c]]]
    IN  Drop(InsertAll(upd, tx.insUsers), tx.delUsers)

----------------------------------------------------------------------------
(* The forms a request may carry *)

\* The fields of a form are parsed one by one, so a form differs from
\* BaseForm in one group of fields: the counters, the position, the match
\* type, the date or the file.
BaseForm ==
    [date |-> Some(GoodDate), kills |-> Some(5), damage |-> Some(3),
     survival |-> Some(4), position |-> Some(1), match_type |-> Some("BR"),
     upload |-> "shot.png"]

CounterForms ==
    {[BaseForm EXCEPT !.kills = l[1], !.damage = l[2], !.survival = l[3]] :
        l \in StatLines}

StatForms ==
    CounterForms
    \cup {[BaseForm EXCEPT !.position = p] : p \in PositionIn}
    \cup {[BaseForm EXCEPT !.match_type = t] : t \in TypeIn}
    \cup {[BaseForm EXCEPT !.date = d] : d \in DateIn}
    \cup {[BaseForm EXCEPT !.upload = f] : f \in UploadIn}

\* the player ids a bulk row may name: blank, the admin, the player
PidIn == {None, Some(1), Some(2)}

BaseRow ==
    [player_id |-> Some(2), kills |-> Some(5), damage |-> Some(3),
     survival |-> Some(4), position |-> Some(1)]

CounterRows ==
    {[BaseRow EXCEPT !.kills = l[1], !.damage = l[2], !.survival = l[3]] :
        l \in StatLines}

BulkRowIn ==
    CounterRows
    \cup {[BaseRow EXCEPT !.position = p] : p \in PositionIn}
    \cup {[BaseRow EXCEPT !.player_id = pid] : pid \in PidIn}

RowLists(rows) == UNION {[1..n -> rows] : n \in 1..MaxRows}

BaseBulk ==
    [date |-> Some(GoodDate), match_type |-> Some("BR"), upload |-> "shot.png",
     rows |-> <<BaseRow>>]

BulkForms ==
    {[BaseBulk EXCEPT !.rows = r] : r \in RowLists(BulkRowIn)}
    \cup {[BaseBulk EXCEPT !.match_type = t] : t \in TypeIn}
    \cup {[BaseBulk EXCEPT !.date = d] : d \in DateIn}
    \cup {[BaseBulk EXCEPT !.upload = f] : f \in UploadIn}

\* the forms of LogSpec and ConcSpec: the counters, and the positions 1 and 3
LogForms == CounterForms \cup {[BaseForm EXCEPT !.position = Some(3)]}
LogBulkForms == {[BaseBulk EXCEPT !.rows = r] : r \in RowLists(CounterRows)}

\* add_player: a new name, a name in use, a blank name, a blank password
PlayerForms ==
    {[username |-> n, password |-> "pw", ff_uid |-> "1004",
      player_role |-> "Rusher"] : n \in {"n4", "p2", ""}}
    \cup {[username |-> "n4", password |-> "", ff_uid |-> "",
           player_role |-> ""]}

\* a handler that denies the actor returns before it reads the form
FormsReadFor(role, denied, forms) ==
    IF role \in denied THEN {CHOOSE f \in forms : TRUE} ELSE forms

----------------------------------------------------------------------------
(* The state after construction: the admin (created at start-up), a player *)
(* and a viewer; no match record, no upload.                               *)

\* the admin of the start-up code; p2 as add_player made it; v3 made by
\* add_player without ff_uid and player_role and turned viewer by toggle_role
InitUsers ==
    (1 :> User("TW_AIMED", "admin"))
    @@ (2 :> NewPlayer("p2", "1002", "Sniper"))
    @@ (3 :> [NewPlayer("v3", "", "") EXCEPT !.role = "viewer"])

NoRequest == [op |-> "none", id |-> 0, old |-> None]

\* the day the server starts on, as a datetime.date
FirstDay == [year |-> 2026, month |-> 1, day |-> 1]
NoView == [op |-> "none"]

Init ==
    /\ users = InitUsers
    /\ stats = <<>>
    /\ files = {}
    /\ inflight = <<>>
    /\ last = NoRequest
    /\ view = NoView
    /\ attendance = <<>>
    /\ activity = <<>>
    /\ today = FirstDay

----------------------------------------------------------------------------
(* One request handled from start to commit.  With log set, a request that *)
(* commits is recorded in last: its handler, the row it was aimed at and   *)
(* that row as the handler read it.                                        *)

Handle(op, id, out, log) ==
    /\ out.tx.ins # <<>> => Max(DOMAIN stats, 0) + Len(out.tx.ins) <= MaxStatId
    /\ stats' = CommitStats(stats, out.tx)
    /\ users' = CommitUsers(users, out.tx)
    /\ files' = (files \ out.frem) \cup out.fsave
    /\ last' = IF log /\ out.result = "ok"
                 THEN [op |-> op, id |-> id, old |-> out.old]
                 ELSE last
    /\ view' = NoView
    /\ attendance' = CommitAttendance(attendance, out.tx)
    /\ activity' = CommitActivity(activity, out.tx)
    /\ UNCHANGED <<inflight, today>>

AddStatsOn(forms, log) ==
    \E actor \in DOMAIN users :
      \E form \in FormsReadFor(users[actor].role, {"viewer"}, forms) :
        Handle("add_stats", 0,
               add_stats(users, stats, files, {}, actor, form), log)

BulkStatsOn(forms, log) ==
    \E actor \in DOMAIN users :
      \E form \in FormsReadFor(users[actor].role, {"player", "viewer"}, forms) :
        Handle("bulk_stats", 0,
               bulk_stats(users, stats, files, {}, actor, form), log)

EditProofOn(forms, log) ==
    \E actor \in DOMAIN users, id \in StatIds :
      \E form \in FormsReadFor(users[actor].role, {"player", "viewer"}, forms) :
        Handle("edit_proof", id,
               edit_proof(users, stats, files, {}, actor, id, form), log)

DeleteProofOn(log) ==
    \E actor \in DOMAIN users, id \in StatIds :
        Handle("delete_proof", id,
               delete_proof(users, stats, files, actor, id), log)

DeleteProofImage ==
    \E actor \in DOMAIN users, id \in StatIds :
        Handle("delete_proof_image", id,
               delete_proof_image(users, stats, files, actor, id), FALSE)

DeletePlayerHard ==
    \E actor \in DOMAIN users, pid \in UserIds :
        Handle("delete_player_hard", 0,
               delete_player_hard(users, stats, files, actor, pid), FALSE)

AddStats == AddStatsOn(StatForms, FALSE)
BulkStats == BulkStatsOn(BulkForms, FALSE)
EditProof == EditProofOn(StatForms, FALSE)
DeleteProof == DeleteProofOn(FALSE)

Next ==
    \/ AddStats
    \/ BulkStats
    \/ EditProof
    \/ DeleteProof
    \/ DeleteProofImage
    \/ DeletePlayerHard

Spec == Init /\ [][Next]_vars

(* The accounts and the match records together, the forms as submitted by  *)
(* the pages (BaseForm, BaseBulk)                                           *)

HandleUsers(op, out) ==
    /\ Max(DOMAIN users, 0) + Len(out.tx.insUsers) <= MaxUserId
    /\ Handle(op, 0, out, FALSE)

AddPlayer ==
    \E actor \in DOMAIN users :
      \E form \in FormsReadFor(users[actor].role, {"player", "viewer"},
                               PlayerForms) :
        HandleUsers("add_player", add_player(users, actor, form))

DeletePlayer ==
    \E actor \in DOMAIN users, pid \in UserIds :
        HandleUsers("delete_player", delete_player(users, actor, pid))

RestorePlayer ==
    \E actor \in DOMAIN users, pid \in UserIds :
        HandleUsers("restore_player", restore_player(users, actor, pid))

ToggleRole ==
    \E actor \in DOMAIN users, pid \in UserIds :
        HandleUsers("toggle_role", toggle_role(users, actor, pid))

AddStatsBase == AddStatsOn({BaseForm}, FALSE)
BulkStatsBase == BulkStatsOn({BaseBulk}, FALSE)
EditProofBase ==
    EditProofOn({[BaseForm EXCEPT !.position = Some(3), !.upload = "none"]},
                FALSE)

NextRoster ==
    \/ DeletePlayer
    \/ RestorePlayer
    \/ ToggleRole
    \/ DeletePlayerHard
    \/ AddStatsBase
    \/ BulkStatsBase
    \/ EditProofBase
    \/ DeleteProof
    \/ DeleteProofImage

RosterSpec == Init /\ [][NextRoster]_vars

(* The four handlers of the match records, their committed requests logged *)

AddStatsLogged == AddStatsOn(LogForms, TRUE)
BulkStatsLogged == BulkStatsOn(LogBulkForms, TRUE)
EditProofLogged == EditProofOn(LogForms, TRUE)
DeleteProofLogged == DeleteProofOn(TRUE)

NextLog ==
    \/ AddStatsLogged
    \/ BulkStatsLogged
    \/ EditProofLogged
    \/ DeleteProofLogged

LogSpec == Init /\ [][NextLog]_vars

----------------------------------------------------------------------------
(* Requests served at once.  A request reads the store when it starts      *)
(* (Begin...), keeps its pending writes in its own session (inflight) and  *)
(* commits later (Commit).  A session that has flushed holds the store's   *)
(* write lock until it commits: edit_proof and delete_proof flush before   *)
(* they query the remaining rows, bulk_stats flushes when it loads a user  *)
(* that is not the actor, add_stats writes nothing before its commit.      *)

\* the counters a form of ConcSpec carries: none below zero
ConcLines == {l \in StatLines : \A i \in 1..3 : l[i] = None \/ Val(l[i]) >= 0}
ConcForms ==
    {[BaseForm EXCEPT !.kills = l[1], !.damage = l[2], !.survival = l[3]] :
        l \in ConcLines}
ConcRows ==
    {[BaseRow EXCEPT !.kills = l[1], !.damage = l[2], !.survival = l[3],
                     !.player_id = pid] :
        l \in ConcLines, pid \in {Some(1), Some(2)}}
ConcBulkForms == {[BaseBulk EXCEPT !.rows = <<r>>] : r \in ConcRows}

Slots == 1..MaxInflight
FreeSlot == CHOOSE n \in Slots \ DOMAIN inflight :
                \A m \in Slots \ DOMAIN inflight : n <= m
LockHeld == \E n \in DOMAIN inflight : inflight[n].locked

\* the file names the sessions in progress refer to
PendingNames ==
    UNION {Range([i \in DOMAIN inflight[n].tx.ins |->
                    Val(inflight[n].tx.ins[i].screenshot)])
           : n \in DOMAIN inflight}

Begin(out, locks) ==
    /\ DOMAIN inflight # Slots
    /\ locks => ~LockHeld
    /\ files' = (files \ out.frem) \cup out.fsave
    /\ inflight' = IF out.result = "ok"
                     THEN inflight @@ (FreeSlot :> [tx |-> out.tx, locked |-> locks])
                     ELSE inflight
    /\ UNCHANGED <<users, stats, last, view, attendance, activity, today>>

BeginAddStats ==
    \E actor \in DOMAIN users :
      \E form \in FormsReadFor(users[actor].role, {"viewer"}, ConcForms) :
        Begin(add_stats(users, stats, files, PendingNames, actor, form), FALSE)

BeginBulkStats ==
    \E actor \in DOMAIN users :
      \E form \in FormsReadFor(users[actor].role, {"player", "viewer"},
                               ConcBulkForms) :
        Begin(bulk_stats(users, stats, files, PendingNames, actor, form),
              \E i \in DOMAIN form.rows : form.rows[i].player_id # Some(actor))

BeginEditProof ==
    \E actor \in DOMAIN users, id \in StatIds :
      \E form \in FormsReadFor(users[actor].role, {"player", "viewer"},
                               ConcForms) :
        Begin(edit_proof(users, stats, files, PendingNames, actor, id,
                         [form EXCEPT !.upload = "none"]), TRUE)

BeginDeleteProof ==
    \E actor \in DOMAIN users, id \in StatIds :
        Begin(delete_proof(users, stats, files, actor, id), TRUE)

\* db.session.commit() of a session in progress; a stale UPDATE rolls back
Commit ==
    \E n \in DOMAIN inflight :
        LET tx == inflight[n].tx
        IN  /\ \A m \in DOMAIN inflight : inflight[m].locked => m = n
            /\ Max(DOMAIN stats, 0) + Len(tx.ins) <= MaxStatId
            /\ stats' = IF Stale(users, stats, tx) THEN stats
                        ELSE CommitStats(stats, tx)
            /\ users' = IF Stale(users, stats, tx) THEN users
                        ELSE CommitUsers(users, tx)
            /\ Max(DOMAIN attendance, 0) + Len(tx.insAtt) <= MaxAttId
            /\ attendance' = IF Stale(users, stats, tx) THEN attendance
                             ELSE CommitAttendance(attendance, tx)
            /\ activity' = IF Stale(users, stats, tx) THEN activity
                           ELSE CommitActivity(activity, tx)
            /\ inflight' = Drop(inflight, {n})
            /\ UNCHANGED <<files, last, view, today>>

NextConc ==
    \/ BeginAddStats
    \/ BeginBulkStats
    \/ BeginEditProof
    \/ BeginDeleteProof
    \/ Commit

ConcSpec == Init /\ [][NextConc]_vars

(* add_stats requests alone, served at once *)

NextAddConc ==
    \/ BeginAddStats
    \/ Commit

AddConcSpec == Init /\ [][NextAddConc]_vars

(* join_practice requests served at once, over the days, while the admin   *)
(* changes roles and removes accounts                                      *)

BeginJoinPractice ==
    \E actor \in DOMAIN users :
        Begin(join_practice(users, attendance, today, actor), FALSE)

\* midnight on the server's clock
NextDay ==
    /\ today.day < MaxDay
    /\ today' = [today EXCEPT !.day = @ + 1]
    /\ UNCHANGED <<users, stats, files, inflight, last, view, attendance,
                   activity>>

NextAtt ==
    \/ BeginJoinPractice
    \/ Commit
    \/ NextDay
    \/ ToggleRole
    \/ DeletePlayerHard

AttSpec == Init /\ [][NextAtt]_vars

----------------------------------------------------------------------------
(* leaderboard: one entry per active player, computed from the rows *)

POSITION_POINTS == <<12, 9, 8, 7, 6, 5, 4, 3, 2, 1, 0, 0>>

position_to_points_shifted(pos) ==
    LET pos_int == OrDefault(pos, 0)
    IN  IF pos_int + 1 \in DOMAIN POSITION_POINTS
          THEN POSITION_POINTS[pos_int + 1] ELSE 0

position_to_points(pos) ==
    LET pos_int == OrDefault(pos, 0)
    IN  IF pos_int \in DOMAIN POSITION_POINTS
          THEN POSITION_POINTS[pos_int] ELSE 0

RECURSIVE Sum(_, _)
Sum(f, S) ==
    IF S = {} THEN 0
    ELSE LET x == CHOOSE y \in S : TRUE IN f[x] + Sum(f, S \ {x})

RecordsOfAnyType(st, pid, match_type) == StatsOf(st, pid)

\* q.all(): the player's rows, of the match type asked for
RecordsOf(st, pid, match_type) ==
    {i \in StatsOf(st, pid) :
        match_type = "overall" \/ st[i].match_type = Some(match_type)}

\* the win flag of a row without position taken as a number of wins
RowWinFlag(r) ==
    IF r.position = Some(1) THEN 1
    ELSE IF r.position = None THEN r.booyah ELSE 0

RowWin(r) ==
    IF r.position = Some(1) \/ (r.position = None /\ r.booyah > 0)
      THEN 1 ELSE 0

RowPointsNoLegacy(r) == position_to_points(r.position)

RowPoints(r) ==
    IF r.position # None THEN position_to_points(r.position)
    ELSE 12 * r.booyah

\* score = kills + points + damage / 100 + survival * 0.5, round(score, 2):
\* a number of hundredths (the float keeps it exactly below 2^53 / 100)
score_less_survival(total_kills, total_position_points, total_damage, total_survival) ==
    100 * total_kills + 100 * total_position_points + total_damage
        - 50 * total_survival

score_whole_damage(total_kills, total_position_points, total_damage, total_survival) ==
    100 * total_kills + 100 * total_position_points
        + 100 * (total_damage \div 100) + 50 * total_survival

score(total_kills, total_position_points, total_damage, total_survival) ==
    100 * total_kills + 100 * total_position_points + total_damage
        + 50 * total_survival

\* the entry board.append(...) builds for player p; score in hundredths
board_entry(us, st, p, match_type) ==
    LET records == RecordsOf(st, p, match_type)
        total_kills    == Sum([i \in records |-> st[i].kills], records)
        total_wins     == Sum([i \in records |-> RowWin(st[i])], records)
        total_position_points ==
                          Sum([i \in records |-> RowPoints(st[i])], records)
        total_damage   == Sum([i \in records |-> st[i].damage], records)
        total_survival == Sum([i \in records |-> st[i].survival], records)
    IN  [name |-> us[p].username, kills |-> total_kills,
         booyah |-> total_wins, position_points |-> total_position_points,
         damage |-> total_damage, survival |-> total_survival,
         score |-> score(total_kills, total_position_points, total_damage,
                         total_survival)]

\* User.query.filter_by(role="player")
BoardPlayersAnyActive(us) == {p \in DOMAIN us : us[p].role = "player"}

\* User.query.filter_by(role="player", active=True)
BoardPlayers(us) == {p \in DOMAIN us : us[p].role = "player" /\ us[p].active}

\* sorted(board, key=score) without reverse=True
RECURSIVE sorted_asc(_)
sorted_asc(board) ==
    IF board = <<>> THEN <<>>
    ELSE LET rest == sorted_asc(Tail(board))
             k == Cardinality({i \in DOMAIN rest :
                                  rest[i].score < Head(board).score})
         IN  SubSeq(rest, 1, k) \o <<Head(board)>>
                 \o SubSeq(rest, k + 1, Len(rest))

\* sorted(board, key=score, reverse=True): by score, the highest first;
\* entries of equal score stay in the order they had
RECURSIVE sorted_desc(_)
sorted_desc(board) ==
    IF board = <<>> THEN <<>>
    ELSE LET rest == sorted_desc(Tail(board))
             k == Cardinality({i \in DOMAIN rest :
                                  rest[i].score > Head(board).score})
         IN  SubSeq(rest, 1, k) \o <<Head(board)>>
                 \o SubSeq(rest, k + 1, Len(rest))

\* the orders in which a query without ORDER BY may return the rows S
Orders(S) ==
    {o \in [1..Cardinality(S) -> S] : \A i, j \in DOMAIN o : i # j => o[i] # o[j]}

\* /leaderboard and /team: players is the query's result, in its order
leaderboard(us, st, match_type, players) ==
    sorted_desc([i \in DOMAIN players |->
                    board_entry(us, st, players[i], match_type)])

\* /team counts the booyah column as the wins
team_entry_booyah(us, st, p, match_type) ==
    LET records == {i \in DOMAIN st :
                       /\ st[i].player_id = p
                       /\ match_type = "overall"
                          \/ st[i].match_type = Some(match_type)}
        total_kills == Sum([i \in records |-> st[i].kills], records)
        total_position_points ==
            Sum([i \in records |->
                    IF st[i].position # None
                      THEN position_to_points(st[i].position)
                      ELSE 12 * st[i].booyah], records)
        total_damage == Sum([i \in records |-> st[i].damage], records)
        total_survival == Sum([i \in records |-> st[i].survival], records)
    IN  [name |-> us[p].username, ff_uid |-> us[p].ff_uid,
         player_role |-> us[p].player_role, kills |-> total_kills,
         booyah |-> Sum([i \in records |-> st[i].booyah], records),
         position_points |-> total_position_points,
         damage |-> total_damage, survival |-> total_survival,
         score |-> 100 * total_kills + 100 * total_position_points
                      + total_damage + 50 * total_survival]

\* /team: the entry board.append(...) builds for player p (the loop body of
\* public_team, which repeats leaderboard's computation)
team_entry(us, st, p, match_type) ==
    LET records == {i \in DOMAIN st :
                       /\ st[i].player_id = p
                       /\ match_type = "overall"
                          \/ st[i].match_type = Some(match_type)}
        total_kills == Sum([i \in records |-> st[i].kills], records)
        total_wins ==
            Cardinality({i \in records :
                            \/ st[i].position = Some(1)
                            \/ st[i].position = None /\ st[i].booyah > 0})
        total_position_points ==
            Sum([i \in records |->
                    IF st[i].position # None
                      THEN position_to_points(st[i].position)
                      ELSE 12 * st[i].booyah], records)
        total_damage == Sum([i \in records |-> st[i].damage], records)
        total_survival == Sum([i \in records |-> st[i].survival], records)
    IN  [name |-> us[p].username, ff_uid |-> us[p].ff_uid,
         player_role |-> us[p].player_role, kills |-> total_kills,
         booyah |-> total_wins,
         position_points |-> total_position_points,
         damage |-> total_damage, survival |-> total_survival,
         score |-> 100 * total_kills + 100 * total_position_points
                      + total_damage + 50 * total_survival]

public_team(us, st, match_type, players) ==
    sorted_desc([i \in DOMAIN players |->
                    team_entry(us, st, players[i], match_type)])

\* round(num / den, 2) as a number of hundredths, for den > 0
round2(num, den) == (200 * num + den) \div (2 * den)

\* /api/report without a date range: the entry report.append(...) builds
report_entry(us, st, p, match_type) ==
    LET records == RecordsOf(st, p, match_type)
        matches == Cardinality(records)
        total_kills  == Sum([i \in records |-> st[i].kills], records)
        total_damage == Sum([i \in records |-> st[i].damage], records)
        total_wins   == Sum([i \in records |-> RowWin(st[i])], records)
    IN  [name |-> us[p].username, matches |-> matches, kills |-> total_kills,
         damage |-> total_damage,
         avg_kills |-> IF matches > 0 THEN round2(total_kills, matches) ELSE 0,
         winrate |-> IF matches > 0 THEN round2(100 * total_wins, matches)
                     ELSE 0]

report_data(us, st, match_type, players) ==
    [i \in DOMAIN players |-> report_entry(us, st, players[i], match_type)]

\* /player/<username>: the first user of that name with role "player"
player_profile(us, st, username) ==
    LET found == {p \in DOMAIN us :
                     us[p].username = username /\ us[p].role = "player"}
    IN  IF found = {} THEN [result |-> "Player not found"]
        ELSE LET player == CHOOSE p \in found : TRUE
                 records == StatsOf(st, player)
                 matches == Cardinality(records)
                 total_wins == Sum([i \in records |-> RowWin(st[i])], records)
             IN  [result |-> "ok", name |-> username, matches |-> matches,
                  kills |-> Sum([i \in records |-> st[i].kills], records),
                  damage |-> Sum([i \in records |-> st[i].damage], records),
                  winrate |-> IF matches > 0
                                THEN round2(100 * total_wins, matches) ELSE 0]

----------------------------------------------------------------------------
(* The pages computed from the tables.  The tables start with the rows of   *)
(* one of four histories: none; two matches of player 2 and one of user 3;  *)
(* rows written before the position column existed (position NULL, the win  *)
(* flag as it was typed in); both kinds.                                    *)

LegacyRow(pid, k, b, dmg, surv) ==
    [player_id |-> pid, date |-> GoodDate, kills |-> k, booyah |-> b,
     position |-> None, damage |-> dmg, survival |-> surv,
     screenshot |-> None, match_type |-> None]

PlayedRows ==
    <<NewRow(2, 5, 1, 800, 10, 1, Some("BR")),
      NewRow(2, 3, 5, 400, 4, 2, Some("BR")),
      NewRow(3, 2, 3, 50, 1, 3, Some("CS"))>>

LegacyRows ==
    <<LegacyRow(2, 4, 2, 0, 0), LegacyRow(2, 1, 0, 0, 0),
      LegacyRow(3, 17, 1, 0, 0)>>

ViewStats == {<<>>, PlayedRows, LegacyRows, PlayedRows \o LegacyRows}

MatchTypeArg == {"overall", "BR", "CS"}
PositionArg == {None} \cup {Some(p) : p \in -1..14}

ViewInit ==
    /\ stats \in ViewStats
    /\ users = [p \in DOMAIN InitUsers |->
                  [InitUsers[p]
                     EXCEPT !.best_kills = MaxKills(stats, StatsOf(stats, p)),
                            !.best_damage = MaxDamage(stats, StatsOf(stats, p))]]
    /\ files = {Val(stats[i].screenshot) :
                   i \in {j \in DOMAIN stats : stats[j].screenshot # None}}
    /\ inflight = <<>>
    /\ last = NoRequest
    /\ view = NoView
    /\ attendance = <<>>
    /\ activity = <<>>
    /\ today = FirstDay

Show(page) ==
    /\ view' = page
    /\ UNCHANGED <<users, stats, files, inflight, last, attendance, activity,
                   today>>

Leaderboard ==
    \E match_type \in MatchTypeArg, players \in Orders(BoardPlayers(users)) :
        Show([op |-> "leaderboard", match_type |-> match_type,
              board |-> leaderboard(users, stats, match_type, players)])

PublicTeam ==
    \E match_type \in MatchTypeArg, players \in Orders(BoardPlayers(users)) :
        Show([op |-> "team", match_type |-> match_type,
              board |-> public_team(users, stats, match_type, players)])

ReportData ==
    \E match_type \in MatchTypeArg, players \in Orders(BoardPlayers(users)) :
        Show([op |-> "report", match_type |-> match_type,
              report |-> report_data(users, stats, match_type, players)])

PlayerProfile ==
    \E username \in {"p2", "v3", "n4"} :
        Show([op |-> "profile",
              profile |-> player_profile(users, stats, username)])

PositionToPoints ==
    \E pos \in PositionArg :
        Show([op |-> "position_to_points", pos |-> pos,
              points |-> position_to_points(pos)])

NextView ==
    \/ AddPlayer
    \/ DeletePlayer
    \/ RestorePlayer
    \/ ToggleRole
    \/ DeletePlayerHard
    \/ Leaderboard
    \/ PublicTeam
    \/ ReportData
    \/ PlayerProfile
    \/ PositionToPoints

ViewSpec == ViewInit /\ [][NextView]_vars

----------------------------------------------------------------------------
(* Properties *)

Rows == {stats[i] : i \in DOMAIN stats}

\* C1: in every reachable state each user's best_kills is the maximum kills,
\* and best_damage the maximum damage, over the user's stored rows (0 when
\* there is none).
C1_BestEqualsMaxima ==
    \A p \in DOMAIN users :
        /\ users[p].best_kills = MaxKills(stats, StatsOf(stats, p))
        /\ users[p].best_damage = MaxDamage(stats, StatsOf(stats, p))

PositionOut(p) == p # None /\ ~(Val(p) \in 1..12)
TypeOut(t) == t # None /\ Val(t) \notin ALLOWED_TYPES
MalformedDate(d) == d = None \/ ~ParsesAsDate(Val(d))
BadDateForm == [BaseForm EXCEPT !.date = Some("01/01/2024")]

C4_PositionNullOrInRange ==
    \A r \in Rows : r.position = None \/ Val(r.position) \in 1..12

C4_Witness ==
    \E r1 \in Rows, r2 \in Rows :
        r1.position = None /\ r2.position = Some(3)

\* C6: in every reachable state a stored row's booyah is 1 if and only if
\* its position is 1.
C6_BooyahIffFirst ==
    \A r \in Rows : (r.booyah = 1) <=> (r.position = Some(1))

C6_Witness ==
    \E r1 \in Rows, r2 \in Rows :
        /\ r1.position = Some(1) /\ r1.booyah = 1
        /\ r2.position = None /\ r2.booyah = 0

\* C8: in every reachable state every stored row has kills, damage and
\* survival >= 0.
C8_CountersNonNegative ==
    \A r \in Rows : r.kills >= 0 /\ r.damage >= 0 /\ r.survival >= 0

\* C9: in every reachable state a stored match_type is NULL or one of
\* BR, CS, Scrims, Custom.
C9_MatchTypeNullOrAllowed ==
    \A r \in Rows : r.match_type = None \/ Val(r.match_type) \in ALLOWED_TYPES

\* C10: in every reachable state every stored row's player_id is the id of
\* a user in the store.
C10_RowsBelongToUsers ==
    \A r \in Rows : r.player_id \in DOMAIN users

\* C5: after delete_proof has removed a row that held its player's highest
\* kills, the player's best_kills is the highest kills among the player's
\* remaining rows, 0 when none remains; likewise best_damage.
C5_DeleteRecomputesBest ==
    last.op = "delete_proof" =>
        LET old  == Val(last.old)
            p    == old.player_id
            rest == StatsOf(stats, p)
        IN  p \in DOMAIN users =>
              /\ (\A i \in rest : stats[i].kills <= old.kills)
                    => users[p].best_kills = MaxKills(stats, rest)
              /\ (\A i \in rest : stats[i].damage <= old.damage)
                    => users[p].best_damage = MaxDamage(stats, rest)

\* the row deleted had kills 5, a row with kills 2 remains and is the best
C5_Witness ==
    /\ last.op = "delete_proof"
    /\ Val(last.old).kills = 5
    /\ \E i \in StatsOf(stats, Val(last.old).player_id) : stats[i].kills = 2
    /\ users[Val(last.old).player_id].best_kills = 2

\* C7: a step that changes a row's position from 1 to 3 sets its booyah to 0
\* and, the other rows unchanged, lowers its player's leaderboard position
\* points by 4 and win count by 1.
C7_EditFirstToThird ==
    [][\A id \in DOMAIN stats :
          (/\ id \in DOMAIN stats'
           /\ stats[id].position = Some(1)
           /\ stats'[id].position = Some(3))
          => LET p == stats[id].player_id
                 before == board_entry(users, stats, p, "overall")
                 after  == board_entry(users', stats', p, "overall")
             IN  /\ stats'[id].booyah = 0
                 /\ p \in BoardPlayers(users) =>
                       /\ after.position_points = before.position_points - 4
                       /\ after.booyah = before.booyah - 1]_vars

C7_Witness ==
    /\ last.op = "edit_proof"
    /\ last.id \in DOMAIN stats
    /\ Val(last.old).position = Some(1)
    /\ stats[last.id].position = Some(3)
    /\ stats[last.id].booyah = 0
    /\ stats[last.id].player_id \in BoardPlayers(users)
    /\ board_entry(users, stats, stats[last.id].player_id, "overall")
          .position_points = 8

\* C2: once the requests that touched a player's rows at the same time have
\* all committed, the player's best_kills and best_damage are the maxima
\* over the rows then stored (no counter submitted in ConcSpec is negative).
C2_NoLostUpdate ==
    inflight = <<>> => C1_BestEqualsMaxima

\* C20: in every reachable state every stored row's screenshot, when not
\* NULL, names a file that is in UPLOAD_FOLDER: a file is removed only when
\* no remaining row refers to it.
C20_ScreenshotsExist ==
    \A r \in Rows : r.screenshot # None => Val(r.screenshot) \in files

\* what two sessions leave behind when the first to commit is x
CommittedInOrder(x, y) ==
    [users |-> CommitUsers(CommitUsers(users, x.tx), y.tx),
     rows  |-> Range(CommitStats(CommitStats(stats, x.tx), y.tx))]

\* C19: add_stats by user a leaves the rows and the best_kills / best_damage
\* of every other user as they were, and two add_stats requests of different
\* users a and b reach the same users and the same rows whether b starts
\* before or after a commits and whichever of the two commits first.
C19_AddStatsIndependent ==
    \A a \in DOMAIN users, b \in DOMAIN users, fa \in ConcForms,
       fb \in ConcForms :
        LET oa == add_stats(users, stats, files, PendingNames, a, fa)
            files1 == (files \ oa.frem) \cup oa.fsave
            us1 == CommitUsers(users, oa.tx)
            st1 == CommitStats(stats, oa.tx)
            \* b starts while a is in progress / after a has committed
            ob  == add_stats(users, stats, files1,
                             PendingNames \cup oa.fsave, b, fb)
            ob1 == add_stats(us1, st1, files1, PendingNames, b, fb)
        IN  (a # b /\ oa.result = "ok")
            => /\ \A p \in DOMAIN users \ {a} : us1[p] = users[p]
               /\ DOMAIN users = DOMAIN us1
               /\ \A i \in DOMAIN stats : i \in DOMAIN st1 /\ st1[i] = stats[i]
               /\ \A i \in DOMAIN st1 \ DOMAIN stats : st1[i].player_id = a
               /\ ob1 = ob
               /\ CommittedInOrder(oa, ob) = CommittedInOrder(ob, oa)

\* two add_stats requests of different users in progress at once
C19_Witness ==
    \E n \in DOMAIN inflight, m \in DOMAIN inflight :
        /\ Len(inflight[n].tx.ins) = 1 /\ Len(inflight[m].tx.ins) = 1
        /\ ~inflight[n].locked /\ ~inflight[m].locked
        /\ inflight[n].tx.ins[1].player_id # inflight[m].tx.ins[1].player_id
        /\ inflight[n].tx.best # {} /\ inflight[m].tx.best # {}

\* C11: a request of an actor without the role the handler asks for (not the
\* admin for bulk_stats, edit_proof, delete_proof, delete_proof_image,
\* delete_player, delete_player_hard, restore_player and toggle_role; a
\* viewer for add_stats) is answered with the denial: it has nothing to
\* commit and has touched no file, so the users, the rows and the best
\* values stay as they are.
C11_DenialChangesNothing ==
    \A a \in DOMAIN users :
        /\ CommitUsers(users, Refuse("denied").tx) = users
        /\ CommitStats(stats, Refuse("denied").tx) = stats
        /\ users[a].role = "viewer"
             => \A f \in StatForms :
                   add_stats(users, stats, files, {}, a, f) = Refuse("denied")
        /\ users[a].role # "admin"
             => /\ \A f \in BulkForms :
                      bulk_stats(users, stats, files, {}, a, f)
                         = Refuse("denied")
                /\ \A id \in StatIds :
                      /\ \A f \in StatForms :
                            edit_proof(users, stats, files, {}, a, id, f)
                               = Refuse("denied")
                      /\ delete_proof(users, stats, files, a, id)
                            = Refuse("denied")
                      /\ delete_proof_image(users, stats, files, a, id)
                            = Refuse("denied")
                /\ \A pid \in UserIds :
                      /\ delete_player(users, a, pid) = Refuse("denied")
                      /\ delete_player_hard(users, stats, files, a, pid)
                            = Refuse("denied")
                      /\ restore_player(users, a, pid) = Refuse("denied")
                      /\ toggle_role(users, a, pid) = Refuse("denied")

\* a player and a viewer ask while there are a row with a screenshot to edit
\* or delete, a deactivated player to restore and an account to toggle
C11_Witness ==
    \E a \in DOMAIN users, v \in DOMAIN users, p \in DOMAIN users,
       i \in DOMAIN stats :
        /\ users[a].role = "player" /\ users[v].role = "viewer"
        /\ users[p].role = "player" /\ ~users[p].active
        /\ stats[i].screenshot # None
        /\ toggle_role(users, a, v).result = "denied"
        /\ add_stats(users, stats, files, {}, v, BaseForm).result = "denied"

ActivePlayers == {p \in DOMAIN users : users[p].role = "player" /\ users[p].active}

\* C12: the leaderboard has exactly one entry for each user whose role is
\* "player" and whose active flag is true, and no other entry.
C12_OneEntryPerActivePlayer ==
    view.op = "leaderboard"
    => /\ Len(view.board) = Cardinality(ActivePlayers)
       /\ \A p \in ActivePlayers :
             Cardinality({i \in DOMAIN view.board :
                             view.board[i].name = users[p].username}) = 1
       /\ \A i \in DOMAIN view.board :
             \E p \in ActivePlayers : users[p].username = view.board[i].name

\* a leaderboard of two players while a third player is deactivated and
\* another account is a viewer or the admin
C12_Witness ==
    /\ view.op = "leaderboard"
    /\ Len(view.board) = 2
    /\ \E p \in DOMAIN users : users[p].role = "player" /\ ~users[p].active
    /\ \E p \in DOMAIN users : users[p].role # "player"

Scores(board) == {board[i].score : i \in DOMAIN board}

\* C13: the board of /leaderboard and of /team is in order of non-increasing
\* score, and when the scores are all distinct it is the same board whatever
\* the order in which the query returned the players.
C13_SortedByScore ==
    view.op \in {"leaderboard", "team"}
    => /\ \A i, j \in DOMAIN view.board :
             i < j => view.board[i].score >= view.board[j].score
       /\ Cardinality(Scores(view.board)) = Len(view.board)
             => \A players \in Orders(BoardPlayers(users)) :
                   view.board
                      = IF view.op = "team"
                          THEN public_team(users, stats, view.match_type,
                                           players)
                          ELSE leaderboard(users, stats, view.match_type,
                                           players)

\* a board of three players of three different scores, and one of /team with
\* two players of the same score
C13_Witness ==
    \/ /\ view.op = "leaderboard"
       /\ Len(view.board) = 3
       /\ Cardinality(Scores(view.board)) = 3
    \/ /\ view.op = "team"
       /\ Len(view.board) >= 2
       /\ Cardinality(Scores(view.board)) < Len(view.board)
       /\ \E i \in DOMAIN view.board : view.board[i].score > 0

\* the player an entry is about, and the rows the page's filter selects
PlayerNamed(name) == CHOOSE p \in DOMAIN users : users[p].username = name
Matching(p, match_type) ==
    {i \in DOMAIN stats :
        /\ stats[i].player_id = p
        /\ match_type = "overall" \/ stats[i].match_type = Some(match_type)}

PointsTable == <<12, 9, 8, 7, 6, 5, 4, 3, 2, 1, 0, 0>>
PointsOfRow(r) ==
    IF r.position = None THEN 12 * r.booyah
    ELSE IF Val(r.position) \in 1..12 THEN PointsTable[Val(r.position)]
    ELSE 0

\* C14: position_to_points gives 12, 9, 8, 7, 6, 5, 4, 3, 2, 1, 0, 0 for the
\* positions 1..12 and 0 for any other number; the position points of a
\* leaderboard entry count a row of NULL position as 12 times its booyah.
C14_PositionPoints ==
    /\ (view.op = "position_to_points" /\ view.pos # None)
       => view.points = IF Val(view.pos) \in 1..12
                          THEN PointsTable[Val(view.pos)] ELSE 0
    /\ view.op = "leaderboard"
       => \A i \in DOMAIN view.board :
             LET rows == Matching(PlayerNamed(view.board[i].name),
                                  view.match_type)
             IN  view.board[i].position_points
                    = Sum([j \in rows |-> PointsOfRow(stats[j])], rows)

\* an entry made of a first place, a fifth place and a row of NULL position
\* whose booyah is 2: 12 + 6 + 24 points
C14_Witness ==
    /\ view.op = "leaderboard"
    /\ \E i \in DOMAIN view.board : view.board[i].position_points = 42

\* C15: an entry's score, in hundredths, is 100 * kills + 100 * position
\* points + damage + 50 * survival, these being the totals over the player's
\* rows that match the filter; the rows {5 kills, position 1, damage 800,
\* survival 10} and {3, position 5, 400, 4} give kills 8, wins 1, position
\* points 18 and score 45.00.
C15_ScoreFormula ==
    view.op = "leaderboard"
    => \A i \in DOMAIN view.board :
          LET e == view.board[i]
              rows == Matching(PlayerNamed(e.name), view.match_type)
          IN  /\ e.kills = Sum([j \in rows |-> stats[j].kills], rows)
              /\ e.damage = Sum([j \in rows |-> stats[j].damage], rows)
              /\ e.survival = Sum([j \in rows |-> stats[j].survival], rows)
              /\ e.score = 100 * e.kills + 100 * e.position_points
                              + e.damage + 50 * e.survival
              /\ {stats[j] : j \in rows} = {PlayedRows[1], PlayedRows[2]}
                 => /\ e.kills = 8 /\ e.booyah = 1
                    /\ e.position_points = 18 /\ e.score = 4500

\* the example's two rows on the board, next to an entry whose damage is not
\* a multiple of 100
C15_Witness ==
    /\ view.op = "leaderboard"
    /\ \E i \in DOMAIN view.board :
          /\ view.board[i].score = 4500
          /\ {stats[j] : j \in Matching(PlayerNamed(view.board[i].name),
                                        view.match_type)}
                = {PlayedRows[1], PlayedRows[2]}
    /\ \E i \in DOMAIN view.board : view.board[i].damage = 50

\* C16: an active player without a row that matches the filter has kills 0,
\* wins 0, position points 0 and score 0 on the leaderboard and matches 0,
\* kills 0, avg_kills 0 and winrate 0 in the report (numbers, no division by
\* zero).
C16_NoRecordsAllZero ==
    /\ view.op = "leaderboard"
       => \A i \in DOMAIN view.board :
             Matching(PlayerNamed(view.board[i].name), view.match_type) = {}
             => /\ view.board[i].kills = 0 /\ view.board[i].booyah = 0
                /\ view.board[i].position_points = 0
                /\ view.board[i].score = 0
    /\ view.op = "report"
       => \A i \in DOMAIN view.report :
             Matching(PlayerNamed(view.report[i].name), view.match_type) = {}
             => /\ view.report[i].matches = 0 /\ view.report[i].kills = 0
                /\ view.report[i].avg_kills = 0 /\ view.report[i].winrate = 0

\* a report for one match type with a player who has rows, none of that
\* type, and a player who has rows of that type
C16_Witness ==
    /\ view.op = "report"
    /\ view.match_type # "overall"
    /\ \E i \in DOMAIN view.report :
          /\ view.report[i].matches = 0
          /\ Matching(PlayerNamed(view.report[i].name), "overall") # {}
    /\ \E i \in DOMAIN view.report : view.report[i].matches > 0

WinsOf(rows) ==
    Cardinality({j \in rows : stats[j].position = Some(1)})
    + Cardinality({j \in rows :
                      stats[j].position = None /\ stats[j].booyah > 0})

\* C17: the wins of a player on the leaderboard, and the wins that the
\* winrate of the report and of the profile is computed from, are the number
\* of the player's rows with position 1 plus the number with position NULL
\* and booyah > 0; a row with another position is not a win.
C17_WinCount ==
    /\ view.op = "leaderboard"
       => \A i \in DOMAIN view.board :
             view.board[i].booyah
                = WinsOf(Matching(PlayerNamed(view.board[i].name),
                                  view.match_type))
    /\ view.op = "report"
       => \A i \in DOMAIN view.report :
             LET rows == Matching(PlayerNamed(view.report[i].name),
                                  view.match_type)
             IN  rows # {}
                 => view.report[i].winrate
                       = (200 * 100 * WinsOf(rows) + Cardinality(rows))
                            \div (2 * Cardinality(rows))
    /\ (view.op = "profile" /\ view.profile.result = "ok")
       => LET rows == Matching(PlayerNamed(view.profile.name), "overall")
          IN  rows # {}
              => view.profile.winrate
                    = (200 * 100 * WinsOf(rows) + Cardinality(rows))
                         \div (2 * Cardinality(rows))

\* a player with a first place, a fifth place, a row of NULL position with
\* booyah 2 and one with booyah 0: two wins
C17_Witness ==
    /\ view.op = "leaderboard"
    /\ \E i \in DOMAIN view.board :
          /\ view.board[i].booyah = 2
          /\ Cardinality(Matching(PlayerNamed(view.board[i].name),
                                  view.match_type)) = 4

MaxDelta == 3

\* C18: the score does not go down when one of the total kills, position
\* points, damage and survival of an entry goes up and the other three stay.
C18_ScoreMonotone ==
    view.op = "leaderboard"
    => \A i \in DOMAIN view.board, d \in 1..MaxDelta :
          LET e == view.board[i]
          IN  /\ score(e.kills + d, e.position_points, e.damage, e.survival)
                    >= e.score
              /\ score(e.kills, e.position_points + d, e.damage, e.survival)
                    >= e.score
              /\ score(e.kills, e.position_points, e.damage + d, e.survival)
                    >= e.score
              /\ score(e.kills, e.position_points, e.damage, e.survival + d)
                    >= e.score

\* an entry whose four totals are all above zero
C18_Witness ==
    /\ view.op = "leaderboard"
    /\ \E i \in DOMAIN view.board :
          /\ view.board[i].kills > 0 /\ view.board[i].position_points > 0
          /\ view.board[i].damage > 0 /\ view.board[i].survival > 0
          /\ view.board[i].score > 0

\* the fields /leaderboard shows, of an entry of /team
LeaderboardFields(e) ==
    [name |-> e.name, kills |-> e.kills, booyah |-> e.booyah,
     position_points |-> e.position_points, damage |-> e.damage,
     survival |-> e.survival, score |-> e.score]

\* C21: on the same tables and for the same match type, /leaderboard and
\* /team show the same players in the same order with the same kills, wins,
\* position points, damage, survival and score; /team adds the player's
\* ff_uid and player_role and nothing else.
C21_TeamSameAsLeaderboard ==
    \A match_type \in MatchTypeArg, players \in Orders(BoardPlayers(users)) :
        LET board == leaderboard(users, stats, match_type, players)
            team  == public_team(users, stats, match_type, players)
        IN  /\ Len(team) = Len(board)
            /\ \A i \in DOMAIN team :
                  /\ LeaderboardFields(team[i]) = board[i]
                  /\ DOMAIN team[i] = DOMAIN board[i] \cup {"ff_uid", "player_role"}
                  /\ \E p \in BoardPlayers(users) :
                        /\ users[p].username = team[i].name
                        /\ team[i].ff_uid = users[p].ff_uid
                        /\ team[i].player_role = users[p].player_role

\* /team shown with three players of different ff_uid, one of them with
\* rows of NULL position
C21_Witness ==
    /\ view.op = "team"
    /\ Len(view.board) = 3
    /\ Cardinality({view.board[i].ff_uid : i \in DOMAIN view.board}) = 3
    /\ \E i \in DOMAIN view.board : view.board[i].position_points = 42

\* C22: delete_player followed by restore_player of the same player leaves
\* the player's rows, best_kills and best_damage as they were at each step;
\* the player is not on the leaderboard in between; after the restore the
\* tables, and so the leaderboard, are those before the deletion.
C22_SoftDeleteRestore ==
    \A a \in DOMAIN users, p \in ActivePlayers :
        LET del == delete_player(users, a, p)
            us1 == CommitUsers(users, del.tx)
            st1 == CommitStats(stats, del.tx)
            res == restore_player(us1, a, p)
            us2 == CommitUsers(us1, res.tx)
            st2 == CommitStats(st1, res.tx)
        IN  users[a].role = "admin"
            => /\ del.result = "ok" /\ res.result = "ok"
               /\ del.frem = {} /\ res.frem = {}
               /\ st1 = stats /\ st2 = stats
               /\ us1[p].best_kills = users[p].best_kills
               /\ us1[p].best_damage = users[p].best_damage
               /\ \A q \in DOMAIN users \ {p} : us1[q] = users[q]
               /\ \A match_type \in MatchTypeArg,
                     players \in Orders(BoardPlayers(us1)) :
                     \A i \in DOMAIN players :
                        leaderboard(us1, st1, match_type, players)[i].name
                           # users[p].username
               /\ us2 = users
               /\ \A match_type \in MatchTypeArg,
                     players \in Orders(BoardPlayers(users)) :
                     /\ players \in Orders(BoardPlayers(us2))
                     /\ leaderboard(us2, st2, match_type, players)
                           = leaderboard(users, stats, match_type, players)

\* the leaderboard shown while a player with rows and a best_kills above 0
\* is deactivated, next to an active player
C22_Witness ==
    /\ view.op = "leaderboard"
    /\ Len(view.board) >= 1
    /\ \E p \in DOMAIN users :
          /\ users[p].role = "player" /\ ~users[p].active
          /\ users[p].best_kills > 0
          /\ StatsOf(stats, p) # {}
          /\ \A i \in DOMAIN view.board :
                view.board[i].name # users[p].username
          /\ restore_player(users, AdminId, p).result = "ok"

\* C23: no player has two Attendance rows of the same date, whatever
\* join_practice requests were made and however they overlapped.
C23_OneAttendancePerDay ==
    \A i, j \in DOMAIN attendance :
        (/\ attendance[i].player_id = attendance[j].player_id
         /\ attendance[i].date = attendance[j].date) => i = j

====
